---- MODULE Spec2Model ----
(***************************************************************************)
(* Model of the meeting-analysis pipeline in src/main.py: main() polls the *)
(* team folders of a drive, and for every listed recording runs            *)
(* download -> transcribe -> analyze -> write -> archive.                  *)
(*                                                                         *)
(* The external services (drive, spreadsheet, speech model, language       *)
(* model, file system) are state variables; every call to one of them      *)
(* either takes effect and returns, or raises without effect.  The         *)
(* outcome of each call is an input chosen with \E.                        *)
(***************************************************************************)
EXTENDS Integers, Sequences, FiniteSets, TLC

\* ---------------------------------------------------------------- bounds
MaxFiles == 2         \* recordings on the drive when main() is executed once
MaxRuns == 2          \* consecutive executions of main() ...
MaxRerunFiles == 1    \* ... over this many recordings
MaxUsedSources == 2   \* the recordings lie in the first folders of TEAM_FOLDERS
MaxWriterRows == 3    \* rows of the sheet in the sheet-writer specification

\* ------------------------------------------------------ program constants
GOOGLE_SHEET_ID == "12vuVG0jTs5GUFaywj3piz6zk44X92JeB"
PROCESSED_FOLDER_ID == "1fI7QAr1MwJlh4FTJGezb5LTXGDqMpmXT"

\* the mapping of main.py:28-38, in insertion order; folder is what
\* get_id_from_url returns for the entry's url
TEAM_FOLDERS ==
  << [member |-> "Sharath",  folder |-> "1Ddvswz50pgniX3WTQdV-gd2wEz56di5H"],
     [member |-> "Tavish",   folder |-> "1ug6CVE96qLJNfmwLdC631Zz5KSyVO9FK"],
     [member |-> "Sripal",   folder |-> "19F77ZKyCQgEb43HidnmFMrPxT9Z6NqcW"],
     [member |-> "Musthafa", folder |-> "1kwg9bnZq_CgKE0YKXfDqnMvJHVz7VI3e"],
     [member |-> "Hemanth",  folder |-> "148aNehlAkHFL_gpX73Ko61ftg0XgE_ye"],
     [member |-> "Darshan",  folder |-> "1BciBnzjxbeCnPlPsTCVVhv1NH2BxmIGl"],
     [member |-> "Vishal",   folder |-> "1ZFE5sAVMOlJcHC5r3LEVZzbEnZzOvY-G"],
     [member |-> "Rahul",    folder |-> "1kxThyuSLuMUmM3GFF4H7PcVx8yUzasix"],
     [member |-> "Akshay",   folder |-> "13gXYRgpi4xzhLMWppa8ZI2Ljr_wZHAQF"] >>

\* the canonical header of write_to_google_sheets (main.py:216)
header_keys ==
  << "Date", "POC Name", "Society Name", "Visit Type", "Meeting Type",
     "Amount Value", "Months", "Deal Status", "Vendor Leads", "Society Leads",
     "Opening Pitch Score", "Product Pitch Score",
     "Cross-Sell / Opportunity Handling", "Closing Effectiveness",
     "Negotiation Strength", "Overall Sentiment", "Total Score", "% Score",
     "Risks / Unresolved Issues", "Improvements Needed", "Owner", "Email Id",
     "Kibana ID", "Manager", "Product Pitch", "Team", "Media Link", "Doc Link",
     "Suggestions & Missed Topics", "Pre-meeting brief",
     "Meeting duration (min)", "Rebuttal Handling", "Rapport Building",
     "Improvement Areas", "Product Knowledge Displayed",
     "Call Effectiveness and Control", "Next Step Clarity and Commitment",
     "Missed Opportunities", "Key Discussion Points", "Key Questions",
     "Competition Discussion", "Action items", "Positive Factors",
     "Negative Factors", "Customer Needs", "Overall Client Sentiment",
     "Feature Checklist Coverage" >>

\* ---------------------------------------------------------------- inputs
Range(s) == { s[i] : i \in DOMAIN s }

\* values of the GCP_SA_KEY environment variable: unset, not JSON, a key
SecretValues == { "", "not-json", "{\"type\": \"service_account\"}" }
\* values of the GEMINI_API_KEY environment variable
ApiKeyValues == { "", "key" }

\* Python values of the analysis: None, a dict (val), a non-empty list
NoDict == [k \in {} |-> ""]
PyNone == [kind |-> "None", val |-> NoDict]
PyList == [kind |-> "list", val |-> NoDict]
PyDict(d) == [kind |-> "dict", val |-> d]
PyUnset == [kind |-> "unset", val |-> NoDict]

\* text payloads the language model can answer with
ModelResponses ==
  { "I cannot analyse this.", "{}", "[1]",
    "{\"Society Name\": \"Acme\", \"Total Score\": \"35\", \"Note\": \"x\"}" }

\* a string is a sequence of characters; the segments of the speech model
SegmentOptions ==
  { << >>,
    << <<" ">> >>,
    << <<" ", "h", "i">>, <<" ", "y", "o", " ">> >> }

StrNone == [kind |-> "None", text |-> << >>]
StrUnset == [kind |-> "unset", text |-> << >>]
Str(s) == [kind |-> "str", text |-> s]

\* ------------------------------------------------------- pure functions
\* json.loads on the payloads above: ok = FALSE when it raises
json_loads(text) ==
  CASE text = "{}" -> [ok |-> TRUE, value |-> PyDict(NoDict)]
    [] text = "[1]" -> [ok |-> TRUE, value |-> PyList]
    [] text = "{\"Society Name\": \"Acme\", \"Total Score\": \"35\", \"Note\": \"x\"}" ->
         [ok |-> TRUE,
          value |-> PyDict([k \in {"Society Name", "Total Score", "Note"} |->
                      CASE k = "Society Name" -> "Acme"
                        [] k = "Total Score" -> "35"
                        [] OTHER -> "x"])]
    [] text = "{\"type\": \"service_account\"}" ->
         [ok |-> TRUE, value |-> PyDict([k \in {"type"} |-> "service_account"])]
    [] OTHER -> [ok |-> FALSE, value |-> PyNone]

\* truth value of a Python object in an if
PyTruthy(v) ==
  CASE v.kind = "dict" -> DOMAIN v.val # {}
    [] v.kind = "list" -> TRUE
    [] OTHER -> FALSE

StrTruthy(t) == t.kind = "str" /\ t.text # << >>

RECURSIVE join(_)
join(segs) ==
  IF segs = << >> THEN << >>
  ELSE IF Len(segs) = 1 THEN segs[1]
  ELSE segs[1] \o <<" ">> \o join(Tail(segs))

RECURSIVE lstrip(_)
lstrip(s) == IF s # << >> /\ s[1] = " " THEN lstrip(Tail(s)) ELSE s

RECURSIVE rstrip(_)
rstrip(s) ==
  IF s # << >> /\ s[Len(s)] = " " THEN rstrip(SubSeq(s, 1, Len(s) - 1)) ELSE s

strip(s) == rstrip(lstrip(s))

\* ------------------------------------------------------------ components
\* variant: the drive handle survives a failure of gspread.authorize
authenticate_keeps_drive_handle(key, build_ok, authorize_ok) ==
  IF key = "" THEN <<"None", "None">>
  ELSE IF ~json_loads(key).ok THEN <<"None", "None">>
  ELSE IF ~build_ok THEN <<"None", "None">>
  ELSE IF ~authorize_ok THEN <<"Resource", "None">>
  ELSE <<"Resource", "Client">>

\* authenticate_google_services: the pair (drive_service, gc).  build_ok and
\* authorize_ok say whether the two client constructors return or raise.
authenticate_google_services(key, build_ok, authorize_ok) ==
  IF key = "" THEN <<"None", "None">>
  ELSE IF ~json_loads(key).ok THEN <<"None", "None">>
  ELSE IF ~build_ok THEN <<"None", "None">>
  ELSE IF ~authorize_ok THEN <<"None", "None">>
  ELSE <<"Resource", "Client">>

\* transcribe_audio.  fault names the call that raises: "create" (opening the
\* temporary file), "write" (reading the buffer / writing the file), "model"
\* (loading the model or transcribing), "none".  temp_file is the state of the
\* temporary file when the function is left.
transcribe_audio(fault, segments) ==
  IF fault = "create" THEN
    [raised |-> TRUE, transcript |-> StrUnset, temp_file |-> "none"]
  ELSE IF fault = "write" THEN
    \* the with block is left by the exception, before the try is entered
    [raised |-> TRUE, transcript |-> StrUnset, temp_file |-> "exists"]
  ELSE IF fault = "model" THEN
    [raised |-> FALSE, transcript |-> StrNone, temp_file |-> "removed"]
  ELSE
    [raised |-> FALSE, transcript |-> Str(strip(join(segments))),
     temp_file |-> "removed"]

\* variant: a reply that does not parse is replaced by a record of defaults
analyze_with_default_record(api_key, fault, response) ==
  IF api_key = "" THEN [raised |-> FALSE, value |-> PyNone]
  ELSE IF fault = "configure" THEN [raised |-> TRUE, value |-> PyUnset]
  ELSE IF fault = "generate" THEN [raised |-> FALSE, value |-> PyNone]
  ELSE IF ~json_loads(response).ok
    THEN [raised |-> FALSE,
          value |-> PyDict([k \in {"Society Name"} |-> "N/A"])]
  ELSE [raised |-> FALSE, value |-> json_loads(response).value]

\* analyze_transcript_with_gemini.  fault: "configure" (genai.configure, which
\* is outside the try), "generate" (the model or the request), "none".
analyze_transcript_with_gemini(api_key, fault, response) ==
  IF api_key = "" THEN [raised |-> FALSE, value |-> PyNone]
  ELSE IF fault = "configure" THEN [raised |-> TRUE, value |-> PyUnset]
  ELSE IF fault = "generate" THEN [raised |-> FALSE, value |-> PyNone]
  ELSE IF ~json_loads(response).ok THEN [raised |-> FALSE, value |-> PyNone]
  ELSE [raised |-> FALSE, value |-> json_loads(response).value]

\* worksheet.row_values(i): the cells of row i without the trailing empty
\* cells, the empty list when the row does not exist
RECURSIVE trim_trailing_empty(_)
trim_trailing_empty(row) ==
  IF row # << >> /\ row[Len(row)] = ""
    THEN trim_trailing_empty(SubSeq(row, 1, Len(row) - 1))
    ELSE row

row_values(sh, i) == IF i > Len(sh) THEN << >> ELSE trim_trailing_empty(sh[i])

\* worksheet.append_row: a new trailing row
append_row(sh, row) == Append(sh, row)

\* data.get(header, "N/A")
dict_get(d, key, default) == IF key \in DOMAIN d THEN d[key] ELSE default

\* variant: a missing key gives an empty cell
row_to_insert_blank_default(d, headers) ==
  [i \in 1..Len(headers) |-> dict_get(d, headers[i], "")]

\* [data.get(header, "N/A") for header in headers]
row_to_insert(d, headers) ==
  [i \in 1..Len(headers) |-> dict_get(d, headers[i], "N/A")]

\* variant: the header is appended whatever row 1 holds
headers_missing_always(headers) == TRUE

\* if not headers:
headers_missing(headers) == headers = << >>

\* write_to_google_sheets on the sheet sh.  fault names the call that raises:
\* "open" (open_by_key, get_worksheet, row_values), "header" (the append of
\* the header), "row" (the append of the row), "none".  data.get raises when
\* data is not a dict.  Every exception is caught and logged.
\* hdr / row: whether the header / the row was appended.
write_to_google_sheets(sh, data, fault) ==
  IF fault = "open" THEN [sheet |-> sh, hdr |-> FALSE, row |-> FALSE]
  ELSE
    LET no_headers == headers_missing(row_values(sh, 1)) IN
    IF no_headers /\ fault = "header"
      THEN [sheet |-> sh, hdr |-> FALSE, row |-> FALSE]
    ELSE
      LET sh1 == IF no_headers THEN append_row(sh, header_keys) ELSE sh
          headers == IF no_headers THEN header_keys ELSE row_values(sh, 1)
      IN IF data.kind # "dict" \/ fault = "row"
           THEN [sheet |-> sh1, hdr |-> no_headers, row |-> FALSE]
           ELSE [sheet |-> append_row(sh1, row_to_insert(data.val, headers)),
                 hdr |-> no_headers, row |-> TRUE]

\* variant: the source folder is not removed from the parents
move_without_remove_parents(par, file_id, source_folder_id, ok) ==
  IF ok
    THEN [par EXCEPT ![file_id] = @ \cup {PROCESSED_FOLDER_ID}]
    ELSE par

\* move_file_to_processed: files().update(addParents, removeParents); the
\* exception of a failed call is caught and logged
move_file_to_processed(par, file_id, source_folder_id, ok) ==
  IF ok
    THEN [par EXCEPT ![file_id] = (@ \cup {PROCESSED_FOLDER_ID}) \ {source_folder_id}]
    ELSE par

\* files().list(q = "'folder_id' in parents and ..."): the recordings of the
\* folder, in the order of their ids
RECURSIVE sorted_seq(_)
sorted_seq(S) ==
  IF S = {} THEN << >>
  ELSE LET m == CHOOSE x \in S : \A y \in S : x <= y
       IN <<m>> \o sorted_seq(S \ {m})

list_files(par, folder_id) ==
  sorted_seq({ f \in DOMAIN par : folder_id \in par[f] })

\* ---------------------------------------------------------------- state
VARIABLES
  run,                      \* number of the current execution of main()
  run_limit,                \* executions the scheduler starts
  GCP_SERVICE_ACCOUNT_KEY,  \* module globals read from the environment
  GEMINI_API_KEY,
  pc,                       \* position of main()
  drive_service,            \* locals of main()
  gsheets_client,
  src,                      \* index in TEAM_FOLDERS of the current entry
  files,                    \* result of the list query of the current entry
  fidx,                     \* index in files of the current file
  transcript,
  analysis_data,
  temp_file,                \* the temporary file of the current transcribe_audio call
  parents,                  \* drive: the folders of every recording
  sheet,                    \* spreadsheet: rows of the first worksheet
  \* history of the execution, read by the properties only
  calls,                    \* pipeline calls made for the current file
  raised,                   \* the call whose exception ended the current file
  row_appended,             \* last write_to_google_sheets call appended its row
  listed,                   \* entries whose list query was issued in this run
  attempted,                \* files of the current entry whose pipeline began
  hdr_appends,              \* number of header rows appended so far
  row_src,                  \* per row of the sheet: the file it records, or 0
  archived_at,              \* per file: the run whose archive call succeeded, or 0
  home,                     \* per file: the folder it was uploaded to
  auth_raised,              \* a client constructor raised in authenticate_google_services
  list_ok,                  \* the list query of the current entry returned
  first_list_raised,        \* the list query of the first entry raised in this run
  earlier_raised,           \* an earlier file of the current entry ended with an exception
  reply,                    \* what generate_content did for the current file
  bad_reply                 \* per file: the last run whose reply was no valid JSON, or 0

vars == << run, run_limit, GCP_SERVICE_ACCOUNT_KEY, GEMINI_API_KEY, pc, drive_service,
           gsheets_client, src, files, fidx, transcript, analysis_data,
           temp_file, parents, sheet, calls, raised, row_appended, listed,
           attempted, hdr_appends, row_src, archived_at, home, auth_raised,
           list_ok, first_list_raised, earlier_raised, reply, bad_reply >>

env == << GCP_SERVICE_ACCOUNT_KEY, GEMINI_API_KEY >>
handles == << drive_service, gsheets_client, auth_raised >>
file_locals == << transcript, analysis_data, temp_file >>
file_hist == << calls, raised, row_appended, reply >>
sheet_state == << sheet, hdr_appends, row_src >>
drive_state == << parents, archived_at, home, bad_reply >>
loop_state == << src, files, fidx, listed, attempted, list_ok,
                 first_list_raised, earlier_raised >>

file_id == files[fidx]
folder_id == TEAM_FOLDERS[src].folder

\* the sheet is new, or was given a header of its own
CustomHeader == << "Society Name", "Region", "", "Total Score", "Society Name" >>
InitialSheets == { << >>, << CustomHeader >> }

\* n recordings lie in the first MaxUsedSources folders, file ids in the
\* order of the folders
InitialParents(n) ==
  { p \in [1..n -> { {TEAM_FOLDERS[i].folder} : i \in 1..MaxUsedSources }] :
      \A f, g \in 1..n :
        f < g => \E i, j \in 1..MaxUsedSources :
                   /\ i <= j
                   /\ p[f] = {TEAM_FOLDERS[i].folder}
                   /\ p[g] = {TEAM_FOLDERS[j].folder} }

\* one execution over MaxFiles recordings, or MaxRuns executions over
\* MaxRerunFiles recordings
Scenarios ==
  { [n |-> MaxFiles, runs |-> 1], [n |-> MaxRerunFiles, runs |-> MaxRuns] }

Files == DOMAIN parents

Init ==
  /\ run = 0
  /\ \E sc \in Scenarios :
       /\ run_limit = sc.runs
       /\ parents \in InitialParents(sc.n)
  /\ GCP_SERVICE_ACCOUNT_KEY = ""
  /\ GEMINI_API_KEY = ""
  /\ pc = "idle"
  /\ drive_service = "None"
  /\ gsheets_client = "None"
  /\ src = 0
  /\ files = << >>
  /\ fidx = 0
  /\ transcript = StrUnset
  /\ analysis_data = PyUnset
  /\ temp_file = "none"
  /\ sheet \in InitialSheets
  /\ calls = {}
  /\ raised = ""
  /\ row_appended = FALSE
  /\ listed = << >>
  /\ attempted = << >>
  /\ hdr_appends = 0
  /\ row_src = [i \in 1..Len(sheet) |-> <<0, 0>>]
  /\ archived_at = [f \in Files |-> 0]
  /\ home = [f \in Files |-> CHOOSE x \in parents[f] : TRUE]
  /\ auth_raised = FALSE
  /\ list_ok = FALSE
  /\ first_list_raised = FALSE
  /\ earlier_raised = FALSE
  /\ reply = "unset"
  /\ bad_reply = [f \in Files |-> 0]

\* ------------------------------------------------------- control of main
\* if not drive_service or not gsheets_client: return
after_authenticate(d, g) == IF d = "None" \/ g = "None" THEN "done" ELSE "source"

\* variant: the analysis is started whatever the transcript is
after_transcribe_always_analyzes(t) == "analyze"

\* if transcript: ... (the sleep is inside this if)
after_transcribe(t) == IF StrTruthy(t) THEN "analyze" ELSE "file"

\* variant: the sleep is inside the if on analysis_data
after_analyze_sleep_in_if(a) == IF PyTruthy(a) THEN "write" ELSE "file"

\* if analysis_data: write, move; then the sleep
after_analyze(a) == IF PyTruthy(a) THEN "write" ELSE "sleep"

\* except of the file loop: log, next file
on_file_exception == "file"

\* variant: the exception of a list query leaves the loop
on_source_exception_ends_run == "done"

\* except of the source loop: log, next entry
on_source_exception == "source"

\* ---------------------------------------------------------------- actions
\* the process is started: the module globals are read from the environment
StartRun ==
  /\ pc \in {"idle", "done"}
  /\ run < run_limit
  /\ run' = run + 1
  /\ run_limit' = run_limit
  /\ GCP_SERVICE_ACCOUNT_KEY' \in SecretValues
  /\ GEMINI_API_KEY' \in ApiKeyValues
  /\ pc' = "auth"
  /\ drive_service' = "None"
  /\ gsheets_client' = "None"
  /\ src' = 0
  /\ files' = << >>
  /\ fidx' = 0
  /\ transcript' = StrUnset
  /\ analysis_data' = PyUnset
  /\ temp_file' = "none"
  /\ calls' = {}
  /\ raised' = ""
  /\ row_appended' = FALSE
  /\ listed' = << >>
  /\ attempted' = << >>
  /\ auth_raised' = FALSE
  /\ list_ok' = FALSE
  /\ first_list_raised' = FALSE
  /\ earlier_raised' = FALSE
  /\ reply' = "unset"
  /\ UNCHANGED << sheet_state, drive_state >>

\* main.py:242-249 (the two ids of 242 are non-empty literals)
Authenticate ==
  /\ pc = "auth"
  /\ \E build_ok, authorize_ok \in BOOLEAN :
       LET r == authenticate_google_services(GCP_SERVICE_ACCOUNT_KEY,
                                             build_ok, authorize_ok)
       IN /\ drive_service' = r[1]
          /\ gsheets_client' = r[2]
          /\ pc' = after_authenticate(r[1], r[2])
          /\ auth_raised' = (/\ json_loads(GCP_SERVICE_ACCOUNT_KEY).ok
                             /\ ~(build_ok /\ authorize_ok))
  /\ UNCHANGED << run, run_limit, env, loop_state, file_locals, file_hist,
                  sheet_state, drive_state >>

\* main.py:252-263: the next entry of TEAM_FOLDERS and its list query
ForSource ==
  /\ pc = "source"
  /\ src < Len(TEAM_FOLDERS)
  /\ src' = src + 1
  /\ listed' = Append(listed, src + 1)
  /\ attempted' = << >>
  /\ fidx' = 0
  /\ earlier_raised' = FALSE
  /\ \E ok \in BOOLEAN :
       /\ list_ok' = ok
       /\ first_list_raised' = IF src = 0 THEN ~ok ELSE first_list_raised
       /\ IF ok
            THEN /\ files' = list_files(parents, TEAM_FOLDERS[src + 1].folder)
                 /\ pc' = IF files' = << >> THEN "source" ELSE "file"
            ELSE /\ files' = << >>
                 /\ pc' = on_source_exception
  /\ UNCHANGED << run, run_limit, env, handles, file_locals, file_hist,
                  sheet_state, drive_state >>

\* main.py:285: the mapping is exhausted
Finish ==
  /\ pc = "source"
  /\ src = Len(TEAM_FOLDERS)
  /\ pc' = "done"
  /\ UNCHANGED << run, run_limit, env, handles, loop_state, file_locals, file_hist,
                  sheet_state, drive_state >>

\* main.py:265-267: the next file of the list, or the end of the list
ForFile ==
  /\ pc = "file"
  /\ IF fidx < Len(files)
       THEN /\ fidx' = fidx + 1
            /\ pc' = "download"
            /\ transcript' = StrUnset
            /\ analysis_data' = PyUnset
            /\ temp_file' = "none"
            /\ calls' = {}
            /\ raised' = ""
            /\ row_appended' = FALSE
            /\ reply' = "unset"
            /\ earlier_raised' = (earlier_raised \/ raised # "")
       ELSE \* the locals of the last file are dead once the loop is left
            /\ pc' = "source"
            /\ transcript' = StrUnset
            /\ analysis_data' = PyUnset
            /\ temp_file' = "none"
            /\ calls' = {}
            /\ raised' = ""
            /\ row_appended' = FALSE
            /\ reply' = "unset"
            /\ UNCHANGED << fidx, earlier_raised >>
  /\ UNCHANGED << run, run_limit, env, handles, src, files, listed, attempted, list_ok,
                  first_list_raised, sheet_state, drive_state >>

\* main.py:269, download_file (70-82): an exception propagates to main
Download ==
  /\ pc = "download"
  /\ calls' = calls \cup {"download"}
  /\ attempted' = Append(attempted, file_id)
  /\ \E ok \in BOOLEAN :
       IF ok THEN pc' = "transcribe" /\ raised' = raised
             ELSE pc' = on_file_exception /\ raised' = "download"
  /\ UNCHANGED << run, run_limit, env, handles, src, files, fidx, listed, list_ok,
                  first_list_raised, earlier_raised, file_locals,
                  row_appended, reply, sheet_state, drive_state >>

\* main.py:270-272, transcribe_audio (84-106)
Transcribe ==
  /\ pc = "transcribe"
  /\ calls' = calls \cup {"transcribe"}
  /\ \E fault \in {"none", "create", "write", "model"},
        segments \in SegmentOptions :
       LET r == transcribe_audio(fault, segments)
       IN /\ temp_file' = r.temp_file
          /\ transcript' = r.transcript
          /\ IF r.raised
               THEN pc' = on_file_exception /\ raised' = "transcribe"
               ELSE pc' = after_transcribe(r.transcript) /\ raised' = raised
  /\ UNCHANGED << run, run_limit, env, handles, loop_state, analysis_data, row_appended,
                  reply, sheet_state, drive_state >>

\* main.py:273-274, analyze_transcript_with_gemini (108-205)
Analyze ==
  /\ pc = "analyze"
  /\ calls' = calls \cup {"analyze"}
  /\ \E fault \in {"none", "configure", "generate"},
        response \in ModelResponses :
       LET r == analyze_transcript_with_gemini(GEMINI_API_KEY, fault, response)
       IN /\ analysis_data' = r.value
          /\ IF r.raised
               THEN pc' = on_file_exception /\ raised' = "analyze"
               ELSE pc' = after_analyze(r.value) /\ raised' = raised
          /\ reply' = IF GEMINI_API_KEY = "" \/ fault = "configure" THEN "unset"
                      ELSE IF fault = "generate" THEN "raised"
                      ELSE response
          /\ bad_reply' = IF reply' = "raised"
                              \/ (reply' \in ModelResponses /\ ~json_loads(reply').ok)
                            THEN [bad_reply EXCEPT ![file_id] = run]
                            ELSE bad_reply
  /\ UNCHANGED << run, run_limit, env, handles, loop_state, transcript, temp_file,
                  row_appended, sheet_state, parents, archived_at, home >>

\* main.py:275, write_to_google_sheets (207-225)
Write ==
  /\ pc = "write"
  /\ calls' = calls \cup {"write"}
  /\ \E fault \in {"none", "open", "header", "row"} :
       LET r == write_to_google_sheets(sheet, analysis_data, fault)
       IN /\ sheet' = r.sheet
          /\ row_appended' = r.row
          /\ hdr_appends' = IF r.hdr THEN hdr_appends + 1 ELSE hdr_appends
          /\ row_src' = row_src \o (IF r.hdr THEN << <<0, 0>> >> ELSE << >>)
                                \o (IF r.row THEN << <<file_id, run>> >> ELSE << >>)
  /\ pc' = "move"
  /\ UNCHANGED << run, run_limit, env, handles, loop_state, file_locals, raised, reply,
                  drive_state >>

\* main.py:276, move_file_to_processed (227-238)
Move ==
  /\ pc = "move"
  /\ calls' = calls \cup {"move"}
  /\ \E ok \in BOOLEAN :
       /\ parents' = move_file_to_processed(parents, file_id, folder_id, ok)
       /\ archived_at' = IF ok THEN [archived_at EXCEPT ![file_id] = run]
                               ELSE archived_at
  /\ pc' = "sleep"
  /\ UNCHANGED << run, run_limit, env, handles, loop_state, file_locals, raised, reply,
                  row_appended, sheet_state, home, bad_reply >>

\* main.py:278, time.sleep(20)
Sleep ==
  /\ pc = "sleep"
  /\ calls' = calls \cup {"sleep"}
  /\ pc' = "file"
  /\ UNCHANGED << run, run_limit, env, handles, loop_state, file_locals, raised, reply,
                  row_appended, sheet_state, drive_state >>

Next ==
  \/ StartRun
  \/ Authenticate
  \/ ForSource
  \/ Finish
  \/ ForFile
  \/ Download
  \/ Transcribe
  \/ Analyze
  \/ Write
  \/ Move
  \/ Sleep

Spec == Init /\ [][Next]_vars

TypeOK ==
  /\ run \in 0..run_limit
  /\ pc \in {"idle", "auth", "source", "file", "download", "transcribe",
             "analyze", "write", "move", "sleep", "done"}
  /\ Len(row_src) = Len(sheet)

\* -------------------------------------------- the sheet writer on its own
\* Analysis Records: every dict over these keys and values, and a value
\* that is not a dict
RecKeys == { "Society Name", "Total Score", "Note" }
RecVals == { "Acme", "35" }
WriterData ==
  { PyDict(d) : d \in UNION { [K -> RecVals] : K \in SUBSET RecKeys } }
    \cup { PyList }

InitWriter ==
  /\ run = 0
  /\ run_limit = 0
  /\ GCP_SERVICE_ACCOUNT_KEY = ""
  /\ GEMINI_API_KEY = ""
  /\ pc = "writer"
  /\ drive_service = "Resource"
  /\ gsheets_client = "Client"
  /\ src = 0
  /\ files = << >>
  /\ fidx = 0
  /\ transcript = StrUnset
  /\ analysis_data = PyUnset
  /\ temp_file = "none"
  /\ parents = << {TEAM_FOLDERS[1].folder} >>
  /\ sheet \in InitialSheets
  /\ calls = {}
  /\ raised = ""
  /\ row_appended = FALSE
  /\ listed = << >>
  /\ attempted = << >>
  /\ hdr_appends = 0
  /\ row_src = [i \in 1..Len(sheet) |-> <<0, 0>>]
  /\ archived_at = [f \in Files |-> 0]
  /\ home = [f \in Files |-> TEAM_FOLDERS[1].folder]
  /\ auth_raised = FALSE
  /\ list_ok = FALSE
  /\ first_list_raised = FALSE
  /\ earlier_raised = FALSE
  /\ reply = "unset"
  /\ bad_reply = [f \in Files |-> 0]

\* one call of write_to_google_sheets(gsheets_client, data)
SheetWriterCall ==
  /\ pc = "writer"
  /\ Len(sheet) < MaxWriterRows
  /\ \E data \in WriterData, fault \in {"none", "open", "header", "row"} :
       LET r == write_to_google_sheets(sheet, data, fault)
       IN /\ analysis_data' = data
          /\ sheet' = r.sheet
          /\ row_appended' = r.row
          /\ hdr_appends' = IF r.hdr THEN hdr_appends + 1 ELSE hdr_appends
          /\ row_src' = row_src \o (IF r.hdr THEN << <<0, 0>> >> ELSE << >>)
                                \o (IF r.row THEN << <<0, 0>> >> ELSE << >>)
  /\ calls' = {"write"}
  /\ UNCHANGED << run, run_limit, env, pc, handles, loop_state, transcript, temp_file,
                  raised, reply, drive_state >>

NextWriter == SheetWriterCall

SpecWriter == InitWriter /\ [][NextWriter]_vars

\* ------------------------------------------------------------ properties
\* the pipeline of the current file is over
FileOver == pc = "file" /\ fidx >= 1
InFilePipeline ==
  pc \in {"download", "transcribe", "analyze", "write", "move", "sleep"}
NumHeaderRows(sh) == Cardinality({ i \in 1..Len(sh) : sh[i] = header_keys })
RowsOf(f) == { i \in 1..Len(row_src) : row_src[i][1] = f }
OneTo(n) == [i \in 1..n |-> i]

\* C1: a file whose transcribe_audio call returned None gets no analyze, write
\* or archive call (and no wait) in that run; main is back at the head of the
\* file loop, no exception was raised, and the loop head goes to the next file
\* of the list, or, the list exhausted, back to the loop over the sources.
C1_NullTranscriptSkips ==
  /\ [](transcript.kind = "None" =>
          /\ calls = {"download", "transcribe"}
          /\ pc \in {"file", "source", "done"}
          /\ raised = "")
  /\ [][(transcript.kind = "None" /\ pc = "file") =>
          \/ /\ fidx < Len(files)
             /\ pc' = "download"
             /\ files'[fidx'] = files[fidx + 1]
          \/ /\ fidx = Len(files)
             /\ pc' = "source"
             /\ src' = src]_vars

C1_Witness ==
  /\ transcript.kind = "None"
  /\ pc = "file"
  /\ fidx < Len(files)
  /\ calls = {"download", "transcribe"}

\* C2: when the reply of the model is no valid JSON, or the model call raised,
\* the analysis is None, no write and no archive call is made for the file and
\* no row is appended; the file stays in its source folder for the rest of the
\* run, and the next run's list query of that folder, when it returns, lists it.
InvalidReply == reply = "raised" \/ (reply \in ModelResponses /\ ~json_loads(reply).ok)

C2_InvalidJsonLeavesFilePending ==
  /\ ((InvalidReply /\ (InFilePipeline \/ FileOver)) =>
        /\ analysis_data = PyNone
        /\ calls \cap {"write", "move"} = {}
        /\ ~row_appended
        /\ RowsOf(file_id) \cap { i \in 1..Len(row_src) : row_src[i][2] = run } = {}
        /\ pc \in {"sleep", "file"})
  /\ \A f \in Files :
       /\ (bad_reply[f] = run /\ run >= 1) => parents[f] = {home[f]}
       /\ (/\ bad_reply[f] = run - 1
           /\ run >= 2
           /\ list_ok
           /\ src >= 1
           /\ TEAM_FOLDERS[src].folder = home[f]) => f \in Range(files)

\* the reply of run 1 did not parse; run 2 is processing the file again
C2_Witness ==
  /\ run = 2
  /\ InFilePipeline
  /\ bad_reply[file_id] = 1
  /\ RowsOf(file_id) = {}

\* C3: the header is appended only when row 1 is empty and then becomes row 1;
\* once row 1 is non-empty no step appends a header or changes row 1; the
\* sheet never holds two canonical header rows.
C3_HeaderWrittenOnce ==
  /\ [](NumHeaderRows(sheet) <= 1 /\ hdr_appends <= 1)
  /\ [][/\ (row_values(sheet, 1) # << >> =>
              /\ hdr_appends' = hdr_appends
              /\ NumHeaderRows(sheet') = NumHeaderRows(sheet)
              /\ sheet'[1] = sheet[1])
        /\ (hdr_appends' # hdr_appends =>
              /\ row_values(sheet, 1) = << >>
              /\ hdr_appends' = hdr_appends + 1
              /\ sheet'[1] = header_keys)]_vars

\* a call of run 1 appended the header and failed on the row; a call of run 2
\* appended its row under that header
C3_Witness ==
  /\ hdr_appends = 1
  /\ Len(sheet) = 2
  /\ row_src[2][2] = 2
  /\ sheet[1] = header_keys
  /\ row_appended

\* C4: the appended row is as long as row 1 and holds, at each position, the
\* record's value for the header of that position, or "N/A" when the record
\* has no such key.
C4_RowProjectsRecordOnHeaders ==
  row_appended =>
    LET hdr == sheet[1]
        row == sheet[Len(sheet)]
        d == analysis_data.val
    IN /\ Len(sheet) >= 2
       /\ Len(row) = Len(hdr)
       /\ \A i \in 1..Len(hdr) :
            /\ hdr[i] \in DOMAIN d => row[i] = d[hdr[i]]
            /\ hdr[i] \notin DOMAIN d => row[i] = "N/A"

\* a record with a key that is a header, without a key that is a header, and
\* with a key that is no header
C4_Witness ==
  /\ row_appended
  /\ sheet[1] = CustomHeader
  /\ DOMAIN analysis_data.val = {"Society Name", "Note"}
  /\ Len(sheet) = 3

\* C5: when transcribe_audio has returned or raised, the temporary file it
\* created does not exist.
C5_TempFileAlwaysDeleted == "transcribe" \in calls => temp_file # "exists"

\* C6: every entry of TEAM_FOLDERS is listed once, in order, whatever was
\* raised before: the entries listed so far are 1..src, a run that
\* authenticated ends with all of them listed, and the file loop is left only
\* when every listed file was attempted.
C6_NoFailureEndsTheRun ==
  /\ [](/\ listed = OneTo(src)
        /\ (pc = "done" /\ drive_service # "None") => src = Len(TEAM_FOLDERS)
        /\ pc = "file" => attempted = SubSeq(files, 1, fidx)
        /\ InFilePipeline => fidx \in 1..Len(files))
  /\ [][(pc = "file" /\ pc' = "source") => attempted = files]_vars

\* the list query of the first entry raised and the second entry was listed;
\* an earlier file of that entry raised and its last file was attempted
C6_Witness ==
  /\ first_list_raised
  /\ listed = <<1, 2>>
  /\ pc = "file"
  /\ earlier_raised
  /\ fidx = Len(files)
  /\ attempted = files

\* C7: authenticate_google_services returns (None, None) when the secret is
\* absent or malformed or a client constructor raises, never one handle alone,
\* and main then ends the run without a list query or a pipeline call.
AuthFailed ==
  \/ GCP_SERVICE_ACCOUNT_KEY = ""
  \/ ~json_loads(GCP_SERVICE_ACCOUNT_KEY).ok
  \/ auth_raised

C7_AuthFailureAbortsRun ==
  /\ (drive_service = "None") <=> (gsheets_client = "None")
  /\ (AuthFailed /\ pc \notin {"idle", "auth", "writer"}) =>
       /\ drive_service = "None"
       /\ gsheets_client = "None"
       /\ pc = "done"
       /\ listed = << >>
       /\ attempted = << >>
       /\ calls = {}

C7_Witness == pc = "done" /\ auth_raised /\ run = 2 /\ listed = << >>

\* C8: no file is in the processed folder after its pipeline without its row
\* having been appended by that pipeline.
C8_NoArchiveWithoutRow ==
  (InFilePipeline \/ FileOver) =>
    (PROCESSED_FOLDER_ID \in parents[file_id] => row_appended)

\* C9 as stated: whenever the pipeline of a file is over, the wait has occurred.
C9_WaitAfterEveryFile == FileOver => "sleep" \in calls

\* C9 amended: the wait occurs exactly after the files whose transcript is
\* non-empty and whose analyze call returned, and it is the last step of the
\* file.
C9_WaitOnlyWithTranscript ==
  /\ FileOver =>
       ("sleep" \in calls <=> (StrTruthy(transcript) /\ raised = ""))
  /\ pc \in {"download", "transcribe", "analyze", "write", "move", "sleep"} =>
       "sleep" \notin calls

\* the analysis was skipped and the wait occurred
C9_Witness ==
  /\ FileOver
  /\ "sleep" \in calls
  /\ analysis_data = PyNone
  /\ "write" \notin calls

\* C10: a file that is not archived keeps its source folder; the list query of
\* a folder, when it returns, holds exactly the files uploaded to it that no
\* earlier run archived, so a file recorded but not archived is listed and
\* processed again, and an archived file never is.
C10_UnarchivedFileIsReprocessed ==
  \A f \in Files :
    /\ archived_at[f] = 0 => parents[f] = {home[f]}
    /\ archived_at[f] # 0 => parents[f] = {PROCESSED_FOLDER_ID}
    /\ (list_ok /\ src >= 1) =>
         (f \in Range(files) <=>
            /\ TEAM_FOLDERS[src].folder = home[f]
            /\ archived_at[f] \in {0, run})
    /\ (archived_at[f] # 0 /\ archived_at[f] < run) =>
         /\ f \notin Range(attempted)
         /\ (InFilePipeline => file_id # f)

\* a second row of a file whose first row was appended by the run before
C10_Witness ==
  \E f \in Files :
    /\ run = 2
    /\ \E i, j \in RowsOf(f) : row_src[i][2] = 1 /\ row_src[j][2] = 2
    /\ archived_at[f] = 0
====
